---- MODULE Spec2Model ----
(***************************************************************************)
(* Model of the user authentication service                                *)
(* (0x03-user_authentication_service): the users table behind db.py, the   *)
(* Auth engine of auth.py and the Flask routes of app.py.                  *)
(*                                                                         *)
(* Every call of a DB method (find_user_by, add_user, update_user) is one  *)
(* atomic step.  Spec runs every operation of the service, one request at  *)
(* a time; SpecConcurrent runs the engine operations that make two store   *)
(* calls on several threads, whose steps interleave freely; SpecRoutes     *)
(* runs the routes next to the engine operations; SpecStore calls the      *)
(* methods of DB directly, with any keyword arguments.  SpecBasicAuth is   *)
(* the before_request hook of 0x01-Basic_authentication/api/v1/app.py.     *)
(***************************************************************************)
EXTENDS Integers, Sequences, FiniteSets, TLC

\* ------------------------------------------------------------- bounds
MaxUsers == 2      \* rows the users table may hold
MaxUuid  == 2      \* calls of _generate_uuid
NumSalts == 1      \* distinct salts bcrypt.gensalt may draw

\* ------------------------------------------------------------- values
Threads   == {"t1", "t2"}
Emails    == {"a@x.com", "b@x.com"}
Passwords == {"pw1", "pw2"}
None      == "None"            \* Python's None / SQL NULL
UuidPool  == <<"u1", "u2", "u3", "u4", "u5", "u6", "u7", "u8">>
Salts     == 1..NumSalts

\* An Optional[User]: NoUser for None, Some(row) for a row read from the table.
NoUser    == << >>
Some(row) == <<row>>

\* Python truthiness of an optional string: None and "" are falsy.
Falsy(s) == s = None \/ s = ""

\* A Python value handed to a DB method as an id: an int or a str.
IntVal(n) == <<"int", n>>
StrVal(s) == <<"str", s>>
NoVal     == <<"none", 0>>     \* the call takes no id

\* The keyword arguments of a call that passes none.
NoKwargs == [k \in {} |-> None]

\* The User model: the columns of the users table.
Columns == {"id", "email", "hashed_password", "session_id", "reset_token"}

\* bcrypt.hashpw(password, salt): the blob embeds its salt.
hashpw(password, salt) == [salt |-> salt, digest |-> <<password, salt>>]

\* bcrypt.checkpw(password, hashed): rehash with the blob's salt and compare.
checkpw(password, hashed) == hashpw(password, hashed.salt) = hashed

VARIABLES
    users,      \* the users table: the sequence of rows, in insertion order
    nextUuid,   \* number of uuids generated so far
    pc,         \* per thread: the store call it is about to make
    call,       \* per thread: the operation in progress or last finished
    user,       \* per thread: the row its find_user_by returned
    result,     \* the operation that finished last, the row it had found and
                \* what it returned or raised ("pending" while none has)
    auth        \* the auth object of the Basic-authentication API, None
                \* where none is configured

vars == <<users, nextUuid, pc, call, user, result, auth>>

\* A hasher that stores the password as it is.
HashPasswordPlain(password, salt) == [salt |-> salt, digest |-> <<password>>]

\* _hash_password: bcrypt.hashpw(password.encode(), bcrypt.gensalt()), the
\* salt being the one gensalt draws.
_hash_password(password, salt) == hashpw(password, salt)

\* A generator that hands out the same value again.
RepeatedUuid == UuidPool[1]

\* _generate_uuid: str(uuid4()), a value never returned before.
_generate_uuid == UuidPool[nextUuid + 1]

\* ------------------------------------------------------------- db.py
\* filter_by(**kwargs) on one row.  An id given as a str never equals the
\* INTEGER id column (a uuid string has no integer reading).
Matches(row, kwargs) ==
    \A k \in DOMAIN kwargs :
        IF k = "id"
        THEN kwargs[k][1] = "int" /\ kwargs[k][2] = row.id
        ELSE row[k] = kwargs[k]

\* Index of the first row matching kwargs, 0 when there is none.
FirstMatch(us, kwargs) ==
    IF \E i \in 1..Len(us) : Matches(us[i], kwargs)
    THEN CHOOSE i \in 1..Len(us) :
            /\ Matches(us[i], kwargs)
            /\ \A j \in 1..(i - 1) : ~Matches(us[j], kwargs)
    ELSE 0

\* find_user_by filtering on the columns among its keys and passing over
\* the other keys.
FindUserByIgnoresUnknownKeys(us, kwargs) ==
    LET known == [k \in DOMAIN kwargs \cap Columns |-> kwargs[k]]
        first == FirstMatch(us, known)
    IN  IF DOMAIN kwargs = {}
        THEN [exc |-> "InvalidRequestError", val |-> None]
        ELSE IF first = 0
             THEN [exc |-> "NoResultFound", val |-> None]
             ELSE [exc |-> "none", val |-> us[first]]

\* DB.find_user_by(**kwargs)
find_user_by(us, kwargs) ==
    IF DOMAIN kwargs = {} \/ ~(DOMAIN kwargs \subseteq Columns)
    THEN [exc |-> "InvalidRequestError", val |-> None]
    ELSE LET first == FirstMatch(us, kwargs)
         IN  IF first = 0
             THEN [exc |-> "NoResultFound", val |-> None]
             ELSE [exc |-> "none", val |-> us[first]]

\* DB.add_user(email, hashed_password): insert a row, no check of any kind.
add_user(us, email, hashed_password) ==
    Append(us, [id              |-> Len(us) + 1,
                email           |-> email,
                hashed_password |-> hashed_password,
                session_id      |-> None,
                reset_token     |-> None])

\* update_user setting the columns among its keys before it fails on a
\* key that is none.
UpdateUserPartial(us, user_id, kwargs) ==
    LET found == find_user_by(us, [id |-> user_id])
        wrote == [us EXCEPT ![FirstMatch(us, [id |-> user_id])] =
                     [c \in Columns |->
                         IF c \in DOMAIN kwargs THEN kwargs[c] ELSE @[c]]]
    IN  IF found.exc # "none"
        THEN [exc |-> found.exc, users |-> us]
        ELSE IF ~(DOMAIN kwargs \subseteq Columns)
             THEN [exc |-> "ValueError", users |-> wrote]
             ELSE [exc |-> "none", users |-> wrote]

\* DB.update_user(user_id, **kwargs): set the given columns of the row
\* with that id, leaving its other columns as they are.
update_user(us, user_id, kwargs) ==
    LET found == find_user_by(us, [id |-> user_id])
    IN  IF found.exc # "none"
        THEN [exc |-> found.exc, users |-> us]
        ELSE IF ~(DOMAIN kwargs \subseteq Columns)
             THEN [exc |-> "ValueError", users |-> us]
             ELSE [exc   |-> "none",
                   users |-> [us EXCEPT ![FirstMatch(us, [id |-> user_id])] =
                                [c \in Columns |->
                                    IF c \in DOMAIN kwargs THEN kwargs[c] ELSE @[c]]]]

\* ------------------------------------------------------------- threads
NoCall == [op |-> "none", email |-> None, password |-> None,
           token |-> None, user_id |-> NoVal, kwargs |-> NoKwargs]

Ready(t) == pc[t] = "ready"

\* The thread's operation c, having found the row `found`, returns val or
\* raises exc; its locals are gone.
Finish(t, c, found, exc, val) ==
    /\ pc'     = [pc EXCEPT ![t] = "ready"]
    /\ call'   = [call EXCEPT ![t] = NoCall]
    /\ user'   = [user EXCEPT ![t] = NoUser]
    /\ result' = [call |-> c, user |-> found, exc |-> exc, val |-> val]
    /\ UNCHANGED auth

\* The thread goes on to its next store call, holding the row it found.
Goto(t, c, label, found) ==
    /\ pc'     = [pc EXCEPT ![t] = label]
    /\ call'   = [call EXCEPT ![t] = c]
    /\ user'   = [user EXCEPT ![t] = found]
    /\ result' = [call |-> NoCall, user |-> NoUser, exc |-> "pending", val |-> None]
    /\ UNCHANGED auth

Init ==
    /\ users    = << >>
    /\ nextUuid = 0
    /\ pc       = [t \in Threads |-> "ready"]
    /\ call     = [t \in Threads |-> NoCall]
    /\ user     = [t \in Threads |-> NoUser]
    /\ result   = [call |-> NoCall, user |-> NoUser, exc |-> "none", val |-> None]
    /\ auth     = None

\* ------------------------------------------------------------- db.py, called directly
\* Keys a caller may pass to the store: columns and one name that is none.
StoreKeys == {"id", "email", "session_id", "nickname"}

\* One value for each key a caller may pass.
StoreValues == [id         : {IntVal(i) : i \in 1..MaxUsers},
                email      : Emails,
                session_id : {None, UuidPool[1]},
                nickname   : {"bob"}]

\* The keyword arguments a caller may pass: any of the keys, each with one
\* of its values.
Kwargs(keys) == {[k \in D |-> v[k]] : D \in SUBSET keys, v \in StoreValues}

\* What find_user_by is called with, and what update_user is.
FindKwargs   == Kwargs(StoreKeys)
UpdateKwargs == Kwargs(StoreKeys \ {"id"})

\* The hash a direct caller of add_user stores: the store never reads it.
StoreHash == hashpw("pw1", 1)

\* DB.add_user(email, hashed_password)
AddUser(t, email, hashed_password) ==
    LET c  == [NoCall EXCEPT !.op = "add_user", !.email = email]
        us == add_user(users, email, hashed_password)
    IN  /\ Ready(t)
        /\ Len(users) < MaxUsers
        /\ users' = us
        /\ Finish(t, c, Some(us[Len(us)]), "none", Some(us[Len(us)]))
        /\ UNCHANGED nextUuid

\* DB.find_user_by(**kwargs)
FindUserBy(t, kwargs) ==
    LET c     == [NoCall EXCEPT !.op = "find_user_by", !.kwargs = kwargs]
        found == find_user_by(users, kwargs)
    IN  /\ Ready(t)
        /\ IF found.exc = "none"
           THEN Finish(t, c, Some(found.val), "none", Some(found.val))
           ELSE Finish(t, c, NoUser, found.exc, NoUser)
        /\ UNCHANGED <<users, nextUuid>>

\* DB.update_user(user_id, **kwargs)
UpdateUser(t, user_id, kwargs) ==
    LET c   == [NoCall EXCEPT !.op = "update_user", !.user_id = user_id,
                              !.kwargs = kwargs]
        upd == update_user(users, user_id, kwargs)
    IN  /\ Ready(t)
        /\ users' = upd.users
        /\ Finish(t, c, NoUser, upd.exc, NoUser)
        /\ UNCHANGED nextUuid

\* The store's methods called one after another.
NextStore ==
    \/ \E e \in Emails : AddUser("t1", e, StoreHash)
    \/ \E kwargs \in FindKwargs : FindUserBy("t1", kwargs)
    \/ \E i \in 1..MaxUsers, kwargs \in UpdateKwargs :
            UpdateUser("t1", IntVal(i), kwargs)

SpecStore == Init /\ [][NextStore]_vars

\* ------------------------------------------------------------- auth.py
\* Tokens a caller can present: absent, empty, or any uuid issued so far.
TokenInputs == {None, ""} \cup {UuidPool[i] : i \in 1..nextUuid}

\* Threads that will still insert a row / still draw a uuid.
PendingAdds  == Cardinality({t \in Threads : pc[t] = "register_add"})
PendingUuids == Cardinality({t \in Threads :
                    pc[t] \in {"session_update", "token_update", "login_session"}})

\* register_user without the lookup's verdict: it always goes on to add_user.
RegisterUserUnchecked(t, email, password) ==
    /\ pc[t] = "ready"
    /\ Len(users) + Cardinality({u \in Threads : pc[u] = "register_add"}) < MaxUsers
    /\ pc'     = [pc EXCEPT ![t] = "register_add"]
    /\ call'   = [call EXCEPT ![t] = [NoCall EXCEPT !.op = "register_user",
                                                  !.email = email,
                                                  !.password = password]]
    /\ user'   = [user EXCEPT ![t] = NoUser]
    /\ result' = [call |-> NoCall, user |-> NoUser, exc |-> "pending", val |-> None]
    /\ UNCHANGED auth
    /\ UNCHANGED <<users, nextUuid>>

\* Auth.register_user, up to find_user_by(email=email).
RegisterUser(t, email, password) ==
    LET c     == [NoCall EXCEPT !.op = "register_user", !.email = email,
                                !.password = password]
        found == find_user_by(users, [email |-> email])
    IN  /\ Ready(t)
        /\ IF found.exc = "none"
           THEN Finish(t, c, Some(found.val), "ValueError", None)
           ELSE /\ Len(users) + PendingAdds < MaxUsers
                /\ Goto(t, c, "register_add", NoUser)
        /\ UNCHANGED <<users, nextUuid>>

\* What POST /users answers once register_user has returned.
UserCreated == [status |-> 200, body |-> "user created"]

\* Auth.register_user, the except branch: _hash_password and add_user.
RegisterUserAdd(t, salt) ==
    LET us == add_user(users, call[t].email, _hash_password(call[t].password, salt))
    IN  /\ pc[t] = "register_add"
        /\ users' = us
        /\ IF call[t].op = "post_users"
           THEN Finish(t, call[t], NoUser, "none", UserCreated)
           ELSE Finish(t, call[t], NoUser, "none", Some(us[Len(us)]))
        /\ UNCHANGED nextUuid

\* valid_login that takes an unknown email for a match.
ValidLoginAcceptsUnknown(us, email, password) ==
    LET found == find_user_by(us, [email |-> email])
    IN  IF found.exc = "NoResultFound"
        THEN TRUE
        ELSE checkpw(password, found.val.hashed_password)

\* Auth.valid_login as a function of the table.
valid_login(us, email, password) ==
    LET found == find_user_by(us, [email |-> email])
    IN  IF found.exc = "NoResultFound"
        THEN FALSE
        ELSE checkpw(password, found.val.hashed_password)

\* Auth.valid_login
ValidLogin(t, email, password) ==
    LET c     == [NoCall EXCEPT !.op = "valid_login", !.email = email,
                                !.password = password]
        found == find_user_by(users, [email |-> email])
    IN  /\ Ready(t)
        /\ IF found.exc \in {"none", "NoResultFound"}
           THEN Finish(t, c, IF found.exc = "none" THEN Some(found.val) ELSE NoUser,
                       "none", valid_login(users, email, password))
           ELSE Finish(t, c, NoUser, found.exc, None)
        /\ UNCHANGED <<users, nextUuid>>

\* Auth.create_session, up to find_user_by(email=email).
CreateSession(t, email) ==
    LET c     == [NoCall EXCEPT !.op = "create_session", !.email = email]
        found == find_user_by(users, [email |-> email])
    IN  /\ Ready(t)
        /\ IF found.exc = "NoResultFound"
           THEN Finish(t, c, NoUser, "none", None)
           ELSE /\ nextUuid + PendingUuids < MaxUuid
                /\ Goto(t, c, "session_update", Some(found.val))
        /\ UNCHANGED <<users, nextUuid>>

\* What POST /sessions answers once create_session has returned: the
\* response carries the session_id cookie.
LoggedIn(session_id) == [status |-> 200, body |-> "logged in", cookie |-> session_id]

\* create_session writing back the whole row as it was read by find_user_by.
CreateSessionUpdateWritesStaleRow(t) ==
    /\ pc[t] = "session_update"
    /\ nextUuid' = nextUuid + 1
    /\ users' = [users EXCEPT ![FirstMatch(users, [id |-> IntVal(user[t][1].id)])] =
                    [user[t][1] EXCEPT !.session_id = UuidPool[nextUuid + 1]]]
    /\ pc'     = [pc EXCEPT ![t] = "ready"]
    /\ call'   = [call EXCEPT ![t] = NoCall]
    /\ user'   = [user EXCEPT ![t] = NoUser]
    /\ result' = [call |-> call[t], user |-> user[t], exc |-> "none",
                  val |-> UuidPool[nextUuid + 1]]
    /\ UNCHANGED auth

\* Auth.create_session: _generate_uuid and update_user(user.id, session_id=...).
CreateSessionUpdate(t) ==
    LET session_id == _generate_uuid
        upd == update_user(users, IntVal(user[t][1].id), [session_id |-> session_id])
    IN  /\ pc[t] = "session_update"
        /\ nextUuid' = nextUuid + 1
        /\ users' = upd.users
        /\ IF upd.exc # "none"
           THEN Finish(t, call[t], user[t], upd.exc, None)
           ELSE IF call[t].op = "log_in"
                THEN Finish(t, call[t], user[t], "none", LoggedIn(session_id))
                ELSE Finish(t, call[t], user[t], "none", session_id)

\* get_user_from_session_id without its guard: it looks up any token.
GetUserFromSessionIdUnguarded(us, session_id) ==
    LET found == find_user_by(us, [session_id |-> session_id])
    IN  IF found.exc = "NoResultFound" THEN NoUser ELSE Some(found.val)

\* Auth.get_user_from_session_id as a function of the table.
get_user_from_session_id(us, session_id) ==
    IF Falsy(session_id)
    THEN NoUser
    ELSE LET found == find_user_by(us, [session_id |-> session_id])
         IN  IF found.exc = "NoResultFound" THEN NoUser ELSE Some(found.val)

\* Auth.get_user_from_session_id
GetUserFromSessionId(t, session_id) ==
    LET c     == [NoCall EXCEPT !.op = "get_user_from_session_id",
                                !.token = session_id]
        found == find_user_by(users, [session_id |-> session_id])
    IN  /\ Ready(t)
        /\ IF Falsy(session_id) \/ found.exc \in {"none", "NoResultFound"}
           THEN Finish(t, c, get_user_from_session_id(users, session_id), "none",
                       get_user_from_session_id(users, session_id))
           ELSE Finish(t, c, NoUser, found.exc, None)
        /\ UNCHANGED <<users, nextUuid>>

\* destroy_session letting the lookup's NoResultFound through.
DestroySessionUnknownRaises(t, c, user_id, ret) ==
    LET found == find_user_by(users, [id |-> user_id])
    IN  /\ IF found.exc = "NoResultFound"
           THEN Finish(t, c, NoUser, "NoResultFound", None)
           ELSE Goto(t, c, "destroy_update", Some(found.val))
        /\ UNCHANGED <<users, nextUuid>>

\* Auth.destroy_session(user_id), up to find_user_by(id=user_id), called
\* as operation c; ret is what c returns once destroy_session has returned.
destroy_session(t, c, user_id, ret) ==
    LET found == find_user_by(users, [id |-> user_id])
    IN  /\ IF found.exc = "NoResultFound"
           THEN Finish(t, c, NoUser, "none", ret)
           ELSE Goto(t, c, "destroy_update", Some(found.val))
        /\ UNCHANGED <<users, nextUuid>>

\* What log_out answers after destroy_session: redirect('/').
Redirect == [status |-> 302, body |-> "/"]

\* Auth.destroy_session
DestroySession(t, id) ==
    /\ Ready(t)
    /\ destroy_session(t, [NoCall EXCEPT !.op = "destroy_session",
                                         !.user_id = IntVal(id)],
                       IntVal(id), None)

\* destroy_session clearing the wrong column.
DestroySessionUpdateWrongColumn(t) ==
    /\ pc[t] = "destroy_update"
    /\ users' = update_user(users, IntVal(user[t][1].id), [reset_token |-> None]).users
    /\ pc'     = [pc EXCEPT ![t] = "ready"]
    /\ call'   = [call EXCEPT ![t] = NoCall]
    /\ user'   = [user EXCEPT ![t] = NoUser]
    /\ result' = [call |-> call[t], user |-> user[t], exc |-> "none", val |-> None]
    /\ UNCHANGED auth
    /\ UNCHANGED nextUuid

\* Auth.destroy_session: update_user(user.id, session_id=None).
DestroySessionUpdate(t) ==
    LET upd == update_user(users, IntVal(user[t][1].id), [session_id |-> None])
    IN  /\ pc[t] = "destroy_update"
        /\ users' = upd.users
        /\ IF call[t].op = "log_out"
           THEN Finish(t, call[t], user[t], upd.exc, Redirect)
           ELSE Finish(t, call[t], user[t], upd.exc, None)
        /\ UNCHANGED nextUuid

\* Auth.get_reset_password_token, up to find_user_by(email=email).
GetResetPasswordToken(t, email) ==
    LET c     == [NoCall EXCEPT !.op = "get_reset_password_token",
                                !.email = email]
        found == find_user_by(users, [email |-> email])
    IN  /\ Ready(t)
        /\ IF found.exc = "NoResultFound"
           THEN Finish(t, c, NoUser, "ValueError", None)
           ELSE /\ nextUuid + PendingUuids < MaxUuid
                /\ Goto(t, c, "token_update", Some(found.val))
        /\ UNCHANGED <<users, nextUuid>>

\* get_reset_password_token that also ends the user's session.
GetResetPasswordTokenUpdateClearsSession(t) ==
    LET reset_token == _generate_uuid
        upd == update_user(users, IntVal(user[t][1].id),
                           [reset_token |-> reset_token, session_id |-> None])
    IN  /\ pc[t] = "token_update"
        /\ nextUuid' = nextUuid + 1
        /\ users' = upd.users
        /\ Finish(t, call[t], user[t], upd.exc, reset_token)

\* get_reset_password_token that stores a token only on a record that has
\* none, and returns a fresh one all the same.
GetResetPasswordTokenUpdateKeepsFirst(t) ==
    LET reset_token == _generate_uuid
        upd == update_user(users, IntVal(user[t][1].id),
                   [reset_token |-> IF users[user[t][1].id].reset_token = None
                                    THEN reset_token
                                    ELSE users[user[t][1].id].reset_token])
    IN  /\ pc[t] = "token_update"
        /\ nextUuid' = nextUuid + 1
        /\ users' = upd.users
        /\ Finish(t, call[t], user[t], upd.exc, reset_token)

\* Auth.get_reset_password_token: _generate_uuid and
\* update_user(user.id, reset_token=...).
GetResetPasswordTokenUpdate(t) ==
    LET reset_token == _generate_uuid
        upd == update_user(users, IntVal(user[t][1].id), [reset_token |-> reset_token])
    IN  /\ pc[t] = "token_update"
        /\ nextUuid' = nextUuid + 1
        /\ users' = upd.users
        /\ IF upd.exc = "none"
           THEN Finish(t, call[t], user[t], "none", reset_token)
           ELSE Finish(t, call[t], user[t], upd.exc, None)

\* update_password swallowing the lookup's NoResultFound.
UpdatePasswordSwallows(t, reset_token, password) ==
    LET c == [NoCall EXCEPT !.op = "update_password", !.token = reset_token,
                            !.password = password]
        found == find_user_by(users, [reset_token |-> reset_token])
    IN  /\ pc[t] = "ready"
        /\ pc'   = [pc EXCEPT ![t] =
                        IF Falsy(reset_token) \/ Falsy(password) \/ found.exc # "none"
                        THEN "ready" ELSE "password_update"]
        /\ call' = [call EXCEPT ![t] = IF pc'[t] = "ready" THEN NoCall ELSE c]
        /\ user' = [user EXCEPT ![t] = IF pc'[t] = "ready" THEN NoUser
                                       ELSE Some(found.val)]
        /\ result' = IF pc'[t] = "ready"
                     THEN [call |-> c, user |-> NoUser, exc |-> "none", val |-> None]
                     ELSE [call |-> NoCall, user |-> NoUser, exc |-> "pending",
                           val |-> None]
        /\ UNCHANGED auth
        /\ UNCHANGED <<users, nextUuid>>

\* update_password guarding the password only: it looks up any token.
UpdatePasswordLooksUpAnyToken(t, reset_token, password) ==
    LET c == [NoCall EXCEPT !.op = "update_password", !.token = reset_token,
                            !.password = password]
        found == find_user_by(users, [reset_token |-> reset_token])
    IN  /\ Ready(t)
        /\ IF Falsy(password)
           THEN Finish(t, c, NoUser, "none", None)
           ELSE IF found.exc = "NoResultFound"
                THEN Finish(t, c, NoUser, "ValueError", None)
                ELSE Goto(t, c, "password_update", Some(found.val))
        /\ UNCHANGED <<users, nextUuid>>

\* Auth.update_password, up to find_user_by(reset_token=reset_token).
UpdatePassword(t, reset_token, password) ==
    LET c == [NoCall EXCEPT !.op = "update_password", !.token = reset_token,
                            !.password = password]
        found == find_user_by(users, [reset_token |-> reset_token])
    IN  /\ Ready(t)
        /\ IF Falsy(reset_token) \/ Falsy(password)
           THEN Finish(t, c, NoUser, "none", None)
           ELSE IF found.exc = "NoResultFound"
                THEN Finish(t, c, NoUser, "ValueError", None)
                ELSE Goto(t, c, "password_update", Some(found.val))
        /\ UNCHANGED <<users, nextUuid>>

\* update_password that also ends the user's session.
UpdatePasswordUpdateClearsSession(t, salt) ==
    /\ pc[t] = "password_update"
    /\ users' = update_user(users, IntVal(user[t][1].id),
                    [hashed_password |-> hashpw(call[t].password, salt),
                     reset_token     |-> None,
                     session_id      |-> None]).users
    /\ pc'     = [pc EXCEPT ![t] = "ready"]
    /\ call'   = [call EXCEPT ![t] = NoCall]
    /\ user'   = [user EXCEPT ![t] = NoUser]
    /\ result' = [call |-> call[t], user |-> user[t], exc |-> "none", val |-> None]
    /\ UNCHANGED auth
    /\ UNCHANGED nextUuid

\* update_password that leaves the reset token in place.
UpdatePasswordUpdateKeepsToken(t, salt) ==
    /\ pc[t] = "password_update"
    /\ users' = update_user(users, IntVal(user[t][1].id),
                    [hashed_password |-> hashpw(call[t].password, salt)]).users
    /\ pc'     = [pc EXCEPT ![t] = "ready"]
    /\ call'   = [call EXCEPT ![t] = NoCall]
    /\ user'   = [user EXCEPT ![t] = NoUser]
    /\ result' = [call |-> call[t], user |-> user[t], exc |-> "none", val |-> None]
    /\ UNCHANGED auth
    /\ UNCHANGED nextUuid

\* Auth.update_password: _hash_password and
\* update_user(user.id, hashed_password=..., reset_token=None).
UpdatePasswordUpdate(t, salt) ==
    LET upd == update_user(users, IntVal(user[t][1].id),
                   [hashed_password |-> _hash_password(call[t].password, salt),
                    reset_token     |-> None])
    IN  /\ pc[t] = "password_update"
        /\ users' = upd.users
        /\ Finish(t, call[t], user[t], upd.exc, None)
        /\ UNCHANGED nextUuid

\* ------------------------------------------------------------- app.py
\* What abort(code) answers.
Abort(code) == [status |-> code, body |-> None]

\* What POST /users answers when register_user raises ValueError.
AlreadyRegistered == [status |-> 400, body |-> "email already registered"]

\* POST /users: the route register_user, up to the find_user_by of
\* AUTH.register_user; a form field that is missing is None.
PostUsers(t, email, password) ==
    LET c     == [NoCall EXCEPT !.op = "post_users", !.email = email,
                                !.password = password]
        found == find_user_by(users, [email |-> email])
    IN  /\ Ready(t)
        /\ IF email = None \/ password = None
           THEN Finish(t, c, NoUser, "none", Abort(400))
           ELSE IF found.exc = "none"
                THEN Finish(t, c, Some(found.val), "none", AlreadyRegistered)
                ELSE /\ Len(users) + PendingAdds < MaxUsers
                     /\ Goto(t, c, "register_add", NoUser)
        /\ UNCHANGED <<users, nextUuid>>

\* log_in without its check of the credentials.
LogInUnverified(t, email, password) ==
    LET c == [NoCall EXCEPT !.op = "log_in", !.email = email,
                            !.password = password]
    IN  /\ Ready(t)
        /\ IF email = None \/ password = None
           THEN Finish(t, c, NoUser, "none", Abort(400))
           ELSE /\ nextUuid + PendingUuids < MaxUuid
                /\ Goto(t, c, "login_session", NoUser)
        /\ UNCHANGED <<users, nextUuid>>

\* POST /sessions: log_in, up to AUTH.valid_login; a form field that is
\* missing is None.
LogIn(t, email, password) ==
    LET c == [NoCall EXCEPT !.op = "log_in", !.email = email,
                            !.password = password]
    IN  /\ Ready(t)
        /\ IF email = None \/ password = None
           THEN Finish(t, c, NoUser, "none", Abort(400))
           ELSE IF ~valid_login(users, email, password)
                THEN Finish(t, c, NoUser, "none", Abort(401))
                ELSE /\ nextUuid + PendingUuids < MaxUuid
                     /\ Goto(t, c, "login_session", NoUser)
        /\ UNCHANGED <<users, nextUuid>>

\* log_in: AUTH.create_session(email), up to its find_user_by(email=email);
\* the None it returns for an unknown email becomes the cookie.
LogInCreateSession(t) ==
    LET found == find_user_by(users, [email |-> call[t].email])
    IN  /\ pc[t] = "login_session"
        /\ IF found.exc = "NoResultFound"
           THEN Finish(t, call[t], NoUser, "none", LoggedIn(None))
           ELSE Goto(t, call[t], "session_update", Some(found.val))
        /\ UNCHANGED <<users, nextUuid>>

\* DELETE /sessions: log_out, up to its call of destroy_session, which is
\* handed the cookie's session_id.
LogOut(t, cookie) ==
    LET c == [NoCall EXCEPT !.op = "log_out", !.token = cookie,
                            !.user_id = StrVal(cookie)]
    IN  /\ Ready(t)
        /\ IF Falsy(cookie) \/ get_user_from_session_id(users, cookie) = NoUser
           THEN Finish(t, c, NoUser, "none", Abort(403))
           ELSE Goto(t, c, "destroy_find", NoUser)
        /\ UNCHANGED <<users, nextUuid>>

\* log_out: AUTH.destroy_session(session_id), then redirect('/').
LogOutDestroySession(t) ==
    /\ pc[t] = "destroy_find"
    /\ destroy_session(t, call[t], call[t].user_id, Redirect)

\* GET /profile
Profile(t, cookie) ==
    LET c == [NoCall EXCEPT !.op = "profile", !.token = cookie]
        u == get_user_from_session_id(users, cookie)
    IN  /\ Ready(t)
        /\ IF Falsy(cookie) \/ u = NoUser
           THEN Finish(t, c, NoUser, "none", Abort(403))
           ELSE Finish(t, c, u, "none", [status |-> 200, body |-> u[1].email])
        /\ UNCHANGED <<users, nextUuid>>

\* The engine operations that make two store calls, run by the threads T.
Engine(T) ==
    \/ \E t \in T, e \in Emails, p \in Passwords : RegisterUser(t, e, p)
    \/ \E t \in T, s \in Salts : RegisterUserAdd(t, s)
    \/ \E t \in T, e \in Emails : CreateSession(t, e)
    \/ \E t \in T : CreateSessionUpdate(t)
    \/ \E t \in T, i \in 1..MaxUsers : DestroySession(t, i)
    \/ \E t \in T : DestroySessionUpdate(t)
    \/ \E t \in T, e \in Emails : GetResetPasswordToken(t, e)
    \/ \E t \in T : GetResetPasswordTokenUpdate(t)
    \/ \E t \in T, r \in TokenInputs, p \in Passwords \cup {"", None} :
            UpdatePassword(t, r, p)
    \/ \E t \in T, s \in Salts : UpdatePasswordUpdate(t, s)

\* The engine's lookups and the routes.
Requests(T) ==
    \/ \E t \in T, e \in Emails, p \in Passwords : ValidLogin(t, e, p)
    \/ \E t \in T, s \in TokenInputs : GetUserFromSessionId(t, s)
    \/ \E t \in T, k \in TokenInputs : LogOut(t, k)
    \/ \E t \in T : LogOutDestroySession(t)
    \/ \E t \in T, k \in TokenInputs : Profile(t, k)

\* One request at a time: every operation of the service.
Next == Engine({"t1"}) \/ Requests({"t1"})

Spec == Init /\ [][Next]_vars

\* The routes of app.py.
Routes(T) ==
    \/ \E t \in T, e \in Emails \cup {None}, p \in Passwords \cup {None} :
            PostUsers(t, e, p)
    \/ \E t \in T, e \in Emails \cup {None}, p \in Passwords \cup {None} :
            LogIn(t, e, p)
    \/ \E t \in T : LogInCreateSession(t)
    \/ \E t \in T, k \in TokenInputs : LogOut(t, k)
    \/ \E t \in T : LogOutDestroySession(t)
    \/ \E t \in T, k \in TokenInputs : Profile(t, k)

\* One request at a time: the routes, next to the engine operations.
NextRoutes == Engine({"t1"}) \/ Routes({"t1"})

SpecRoutes == Init /\ [][NextRoutes]_vars

\* Threads running engine operations concurrently, store call by store call.
NextConcurrent == Engine(Threads)

SpecConcurrent == Init /\ [][NextConcurrent]_vars

\* ------------------------------------------------------------- 0x01-Basic_authentication/api/v1/app.py
\* What getenv("AUTH_TYPE") may return: None when the variable is unset.
AuthTypes == {None, "auth", "basic_auth", "session_auth"}

\* The module-level auth object for a value of AUTH_TYPE.
AuthFor(AUTH_TYPE) ==
    IF AUTH_TYPE = "auth" THEN "Auth"
    ELSE IF AUTH_TYPE = "basic_auth" THEN "BasicAuth"
    ELSE None

\* The paths before_request passes to require_auth as excluded.
excluded_paths == {"/api/v1/status/", "/api/v1/unauthorized/", "/api/v1/forbidden/"}

\* Paths a request may carry.
Paths == excluded_paths \cup {"/api/v1/status", "/api/v1/users"}

\* What auth.authorization_header(request) may return.
AuthorizationHeaders == {None, "Basic Ym9iOnB3"}

\* What auth.current_user(request) may return.
CurrentUsers == {None, "bob"}

\* before_request returns None: no response, the request goes on to its view.
PassThrough == [status |-> 0, body |-> None]

\* before_request asking for the current user before the header.
BeforeRequestChecksUserFirst(a, required, header, current) ==
    IF a = None
    THEN PassThrough
    ELSE IF ~required
         THEN PassThrough
         ELSE IF current = None
              THEN Abort(403)
              ELSE IF header = None THEN Abort(401) ELSE PassThrough

\* before_request, for the auth object a and for what its require_auth,
\* authorization_header and current_user answer for the request.
before_request(a, required, header, current) ==
    IF a = None
    THEN PassThrough
    ELSE IF ~required
         THEN PassThrough
         ELSE IF header = None
              THEN Abort(401)
              ELSE IF current = None THEN Abort(403) ELSE PassThrough

\* A request reaches before_request.
BeforeRequest(t, path, required, header, current) ==
    LET c == [NoCall EXCEPT !.op = "before_request",
                            !.kwargs = [path                 |-> path,
                                        require_auth         |-> required,
                                        authorization_header |-> header,
                                        current_user         |-> current]]
    IN  /\ Ready(t)
        /\ Finish(t, c, NoUser, "none", before_request(auth, required, header, current))
        /\ UNCHANGED <<users, nextUuid>>

\* The API after import: auth is set from AUTH_TYPE.
InitBasicAuth ==
    /\ users    = << >>
    /\ nextUuid = 0
    /\ pc       = [t \in Threads |-> "ready"]
    /\ call     = [t \in Threads |-> NoCall]
    /\ user     = [t \in Threads |-> NoUser]
    /\ result   = [call |-> NoCall, user |-> NoUser, exc |-> "none", val |-> None]
    /\ \E AUTH_TYPE \in AuthTypes : auth = AuthFor(AUTH_TYPE)

\* Requests arriving one after another.
NextBasicAuth ==
    \E path \in Paths, required \in BOOLEAN,
       header \in AuthorizationHeaders, current \in CurrentUsers :
        BeforeRequest("t1", path, required, header, current)

SpecBasicAuth == InitBasicAuth /\ [][NextBasicAuth]_vars

\* ------------------------------------------------------------- claims
\* The step completes an operation `op`: it returns or raises.  (Every step
\* that leaves an operation under way resets result to "pending".)
Completes(op) == result'.exc # "pending" /\ result'.call.op = op

\* Some row of the table carries this email.
HasEmail(us, email) == \E i \in 1..Len(us) : us[i].email = email

\* C1: in every reachable state at most one user record exists per email,
\* also when register_user calls for the same email run concurrently.
C1_OneRecordPerEmail ==
    \A i, j \in 1..Len(users) : users[i].email = users[j].email => i = j

\* C2: a register_user call for an email that already has a record raises
\* ValueError, adds no record and leaves every existing record, its
\* hashed_password included, as it was.
C2_DuplicateRegistrationFails ==
    [][\A e \in Emails :
          (Completes("register_user") /\ result'.call.email = e /\ HasEmail(users, e))
          => (result'.exc = "ValueError" /\ users' = users)]_vars

\* C2 has happened: the last call was a register_user for a stored email.
C2_Witness ==
    /\ result.call.op = "register_user"
    /\ result.exc = "ValueError"
    /\ HasEmail(users, result.call.email)
    /\ result.user # NoUser
    /\ result.user[1].hashed_password \in {users[i].hashed_password : i \in 1..Len(users)}

\* The uuids issued so far.
Issued == {UuidPool[k] : k \in 1..nextUuid}

\* The session tokens that currently resolve to the row with this id.
ValidSessionTokens(us, id) ==
    {s \in Issued : /\ get_user_from_session_id(us, s) # NoUser
                    /\ get_user_from_session_id(us, s)[1].id = id}

\* C3: when create_session is called again for a user, returning T2 after
\* T1, get_user_from_session_id(T1) is None and get_user_from_session_id(T2)
\* is that user; no user ever has two valid session tokens.
C3_NewSessionInvalidatesOld ==
    /\ \A i \in 1..Len(users) : Cardinality(ValidSessionTokens(users, users[i].id)) <= 1
    /\ (result.call.op = "create_session" /\ result.exc = "none" /\ result.user # NoUser)
       => LET before == result.user[1]
              got    == get_user_from_session_id(users, result.val)
          IN  /\ got # NoUser
              /\ got[1].id = before.id
              /\ got[1].email = result.call.email
              /\ before.session_id # None
                 => get_user_from_session_id(users, before.session_id) = NoUser

\* C3 has happened: create_session has just replaced a session token.
C3_Witness ==
    /\ result.call.op = "create_session"
    /\ result.user # NoUser
    /\ result.user[1].session_id \in Issued
    /\ result.val \in Issued
    /\ result.val # result.user[1].session_id
    /\ get_user_from_session_id(users, result.user[1].session_id) = NoUser
    /\ get_user_from_session_id(users, result.val) # NoUser

\* The step is the store update of a destroy_session(id) call.
DestroysSessionOf(id) ==
    \E t \in Threads : /\ pc[t] = "destroy_update" /\ pc'[t] = "ready"
                       /\ user[t][1].id = id

\* The step is the store update of a create_session call for the user id.
CreatesSessionOf(id) ==
    \E t \in Threads : /\ pc[t] = "session_update" /\ pc'[t] = "ready"
                       /\ user[t][1].id = id

\* The session token held by row i resolves to that row's user.
SessionResolves(us, i) ==
    LET got == get_user_from_session_id(us, us[i].session_id)
    IN  /\ got # NoUser
        /\ got[1].id = us[i].id
        /\ got[1].email = us[i].email

\* In every state, every stored session token resolves to its user.
SessionsResolve ==
    \A i \in 1..Len(users) : users[i].session_id # None => SessionResolves(users, i)

\* The step leaves row i its session token and its identity.
SessionKept(i) ==
    /\ users'[i].session_id = users[i].session_id
    /\ users'[i].id = users[i].id
    /\ users'[i].email = users[i].email

\* C4 as claimed: the token T returned by create_session resolves to the
\* user's record until destroy_session(user.id) is called, and to None after.
C4_SessionValidUntilDestroyed ==
    /\ []SessionsResolve
    /\ [][\A i \in 1..Len(users) :
             users[i].session_id # None
             => IF DestroysSessionOf(users[i].id)
                THEN get_user_from_session_id(users', users[i].session_id) = NoUser
                ELSE SessionKept(i)]_vars

\* C4, amended: the token T resolves to the user's record until
\* destroy_session(user.id) or a further create_session for the same user
\* is called; after either, it resolves to None.
C4_SessionValidUntilDestroyedOrReplaced ==
    /\ []SessionsResolve
    /\ [][\A i \in 1..Len(users) :
             users[i].session_id # None
             => IF DestroysSessionOf(users[i].id) \/ CreatesSessionOf(users[i].id)
                THEN get_user_from_session_id(users', users[i].session_id) = NoUser
                ELSE SessionKept(i)]_vars

\* C4 has happened: destroy_session has just ended a valid session.
C4_Witness ==
    /\ result.call.op = "destroy_session"
    /\ result.exc = "none"
    /\ result.user # NoUser
    /\ result.user[1].session_id \in Issued
    /\ result.call.user_id = IntVal(result.user[1].id)
    /\ get_user_from_session_id(users, result.user[1].session_id) = NoUser

\* C5: after DELETE /sessions with a cookie holding a valid session_id has
\* redirected, that session is destroyed: the cookie resolves to no user
\* (and GET /profile with it answers 403).
C5_LogoutDestroysSession ==
    (result.call.op = "log_out" /\ result.val = Redirect)
    => get_user_from_session_id(users, result.call.token) = NoUser

\* No row of the table stores R as its reset token.
NotStored(us, R) == \A i \in 1..Len(us) : us[i].reset_token # R

\* C6: after update_password(R, new_password) has succeeded for the user
\* whose reset_token was R, valid_login(email, new_password) is true,
\* valid_login(email, old_password) is false for a different old password,
\* and the user's session_id is what it was, so a session token valid before
\* the reset still resolves to the user.
C6_PasswordResetKeepsSession ==
    (result.call.op = "update_password" /\ result.exc = "none" /\ result.user # NoUser)
    => LET before == result.user[1]
           new    == result.call.password
       IN  /\ before.reset_token = result.call.token
           /\ valid_login(users, before.email, new)
           /\ \A old \in Passwords :
                 (checkpw(old, before.hashed_password) /\ old # new)
                 => ~valid_login(users, before.email, old)
           /\ users[before.id].session_id = before.session_id
           /\ before.session_id # None
              => /\ get_user_from_session_id(users, before.session_id) # NoUser
                 /\ get_user_from_session_id(users, before.session_id)[1].id = before.id

\* C6 has happened: a logged-in user's password has just been replaced by a
\* different one.
C6_Witness ==
    /\ result.call.op = "update_password"
    /\ result.exc = "none"
    /\ result.user # NoUser
    /\ result.user[1].session_id \in Issued
    /\ ~checkpw(result.call.password, result.user[1].hashed_password)
    /\ valid_login(users, result.user[1].email, result.call.password)

\* C7 as claimed: update_password with a non-empty reset_token that no
\* record stores raises ValueError and leaves every record unchanged.
C7_UnknownTokenFails ==
    [][(/\ Completes("update_password")
        /\ ~Falsy(result'.call.token)
        /\ NotStored(users, result'.call.token))
       => (result'.exc = "ValueError" /\ users' = users)]_vars

\* C7, amended: update_password with a non-empty reset_token that no record
\* stores and a non-empty password raises ValueError and leaves every
\* record unchanged.
C7_UnknownTokenWithPasswordFails ==
    [][(/\ Completes("update_password")
        /\ ~Falsy(result'.call.token)
        /\ ~Falsy(result'.call.password)
        /\ NotStored(users, result'.call.token))
       => (result'.exc = "ValueError" /\ users' = users)]_vars

\* C7 has happened: update_password has just refused an unknown token while
\* another reset token is pending.
C7_Witness ==
    /\ result.call.op = "update_password"
    /\ result.exc = "ValueError"
    /\ ~Falsy(result.call.token)
    /\ NotStored(users, result.call.token)
    /\ \E i \in 1..Len(users) : users[i].reset_token # None

\* C8: a reset token is consumed by use: the update_password that succeeds
\* with R leaves R stored on no record, an issued token that is stored on no
\* record is never stored again, and every later update_password(R, pw)
\* raises ValueError and leaves the password as it is.
C8_ResetTokenConsumed ==
    [][/\ \A t \in Threads :
            (pc[t] = "password_update" /\ pc'[t] = "ready" /\ result'.exc = "none")
            => NotStored(users', call[t].token)
       /\ \/ users' = users
          \/ \A R \in Issued : NotStored(users, R) => NotStored(users', R)
       /\ \A R \in Issued :
            (/\ Completes("update_password")
             /\ result'.call.token = R
             /\ ~Falsy(result'.call.password)
             /\ NotStored(users, R))
            => (result'.exc = "ValueError" /\ users' = users)]_vars

\* C8 has happened: update_password has just succeeded with the token R the
\* user had been issued, and R is stored no more.
C8_Witness ==
    /\ result.call.op = "update_password"
    /\ result.exc = "none"
    /\ result.user # NoUser
    /\ result.call.token \in Issued
    /\ result.user[1].reset_token = result.call.token
    /\ NotStored(users, result.call.token)
    /\ users[result.user[1].id].reset_token = None

\* The operation that finished last was a successful `op` on the row id.
LastSucceeded(op, id) ==
    /\ result.call.op = op
    /\ result.exc = "none"
    /\ result.user # NoUser
    /\ result.user[1].id = id

\* C9: a reset token grants one-time permission also under concurrency: of
\* two update_password calls carrying the same valid token R, at most one
\* replaces the password; no replacement with R follows a replacement with R.
C9_TokenUsedOnce ==
    [][\A t \in Threads :
          (pc[t] = "password_update" /\ pc'[t] = "ready" /\ result'.exc = "none")
          => ~(/\ LastSucceeded("update_password", user[t][1].id)
               /\ result.call.token = call[t].token)]_vars

\* C10: when create_session and update_password for the same user
\* interleave, neither store update reverts a field the other wrote: each
\* writes its own columns of the row as it is now, and the update that comes
\* second leaves a record with both effects: session_id is the token
\* create_session returns, hashed_password is the hash of the new password
\* and reset_token is None.
C10_BothEffectsSurvive ==
    [][\A t \in Threads :
          /\ (pc[t] = "session_update" /\ pc'[t] = "ready")
             => LET i == user[t][1].id
                IN  /\ result'.exc = "none"
                    /\ users'[i].session_id = result'.val
                    /\ users'[i].hashed_password = users[i].hashed_password
                    /\ users'[i].reset_token = users[i].reset_token
                    /\ LastSucceeded("update_password", i)
                       => /\ checkpw(result.call.password, users'[i].hashed_password)
                          /\ users'[i].reset_token = None
          /\ (pc[t] = "password_update" /\ pc'[t] = "ready")
             => LET i == user[t][1].id
                IN  /\ result'.exc = "none"
                    /\ checkpw(call[t].password, users'[i].hashed_password)
                    /\ users'[i].reset_token = None
                    /\ users'[i].session_id = users[i].session_id
                    /\ LastSucceeded("create_session", i)
                       => users'[i].session_id = result.val]_vars

\* C10 has happened: create_session has returned for a user whose password
\* was reset between its find_user_by and its update_user, and the record
\* carries the new session, the new password and no reset token.
C10_Witness ==
    /\ result.call.op = "create_session"
    /\ result.exc = "none"
    /\ result.user # NoUser
    /\ result.user[1].reset_token \in Issued
    /\ users[result.user[1].id].reset_token = None
    /\ users[result.user[1].id].hashed_password # result.user[1].hashed_password
    /\ users[result.user[1].id].session_id = result.val

\* The step is the store call by which thread t sets a password: the
\* add_user of register_user or the update_user of update_password.
SetsPassword(t) ==
    /\ pc[t] \in {"register_add", "password_update"}
    /\ pc'[t] = "ready"
    /\ result'.exc = "none"

\* The email of the record whose password thread t is about to set.
TargetEmail(t) ==
    IF pc[t] = "register_add" THEN call[t].email ELSE user[t][1].email

\* C11: valid_login never raises and returns true exactly when a record
\* with that email exists and the password is the one most recently set for
\* it: it is false for every password while the email has no record, true
\* for exactly the password p right after register_user or a successful
\* update_password has set p, and unchanged by every other step.
C11_ValidLoginMatchesLastPassword ==
    /\ [](\A e \in Emails, q \in Passwords :
             ~HasEmail(users, e) => ~valid_login(users, e, q))
    /\ [](result.call.op = "valid_login"
           => /\ result.exc = "none"
              /\ result.val = valid_login(users, result.call.email,
                                          result.call.password))
    /\ [][\A e \in Emails, q \in Passwords :
             IF \E t \in Threads : SetsPassword(t) /\ TargetEmail(t) = e
             THEN \A t \in Threads :
                     (SetsPassword(t) /\ TargetEmail(t) = e)
                     => (valid_login(users', e, q) <=> (q = call[t].password))
             ELSE \/ users' = users
                  \/ valid_login(users', e, q) <=> valid_login(users, e, q)]_vars

\* C11 has happened: valid_login has just accepted the password of a stored
\* record, which refuses every other password, while another email is
\* unknown and refused.
C11_Witness ==
    /\ result.call.op = "valid_login"
    /\ result.exc = "none"
    /\ result.val = TRUE
    /\ result.user # NoUser
    /\ \E q \in Passwords : ~valid_login(users, result.call.email, q)
    /\ \E e \in Emails : ~HasEmail(users, e)

\* What a lookup of the session token s may answer on the table us: None
\* for an absent or empty token and for one no record stores, else a record
\* of the table whose session_id is s.
SessionLookupAnswer(us, s, got) ==
    IF Falsy(s) \/ \A i \in 1..Len(us) : us[i].session_id # s
    THEN got = NoUser
    ELSE /\ got # NoUser
         /\ got[1].session_id = s
         /\ \E i \in 1..Len(us) : us[i] = got[1]

\* C12: get_user_from_session_id never raises: it returns None when the
\* token is None or the empty string, also while records have session_id
\* unset, and None when no record has that session_id; otherwise it returns
\* the record whose session_id equals the token.
C12_SessionLookupNeverRaises ==
    /\ \A s \in TokenInputs :
          SessionLookupAnswer(users, s, get_user_from_session_id(users, s))
    /\ result.call.op = "get_user_from_session_id"
       => /\ result.exc = "none"
          /\ SessionLookupAnswer(users, result.call.token, result.val)

\* C12 has happened: get_user_from_session_id has just answered None for
\* the token None while one record has no session and another has one.
C12_Witness ==
    /\ result.call.op = "get_user_from_session_id"
    /\ result.call.token = None
    /\ result.exc = "none"
    /\ result.val = NoUser
    /\ \E i \in 1..Len(users) : users[i].session_id = None
    /\ \E i \in 1..Len(users) : users[i].session_id \in Issued

\* No record of the table has this id.
UnknownId(us, user_id) == \A i \in 1..Len(us) : IntVal(us[i].id) # user_id

\* C13: destroy_session called with a user_id that matches no record
\* returns without error and leaves every record unchanged; no other user's
\* session_id is cleared.
C13_UnknownUserIdIsNoOp ==
    [][(Completes("destroy_session") /\ UnknownId(users, result'.call.user_id))
       => (result'.exc = "none" /\ users' = users)]_vars

\* C13 has happened: destroy_session has just returned for an id no record
\* has, while another user holds a session.
C13_Witness ==
    /\ result.call.op = "destroy_session"
    /\ result.exc = "none"
    /\ result.user = NoUser
    /\ UnknownId(users, result.call.user_id)
    /\ \E i \in 1..Len(users) : users[i].session_id \in Issued

\* The position of the record with this email.
RowOf(us, email) == CHOOSE i \in 1..Len(us) : us[i].email = email

\* C14: get_reset_password_token(email) raises ValueError and changes no
\* record when no user has that email; otherwise the token it returns is the
\* value stored in that user's reset_token when the call returns, and no
\* other field of any record is changed.
C14_ResetTokenIssuedOrRefused ==
    [][Completes("get_reset_password_token")
       => IF HasEmail(users, result'.call.email)
          THEN /\ result'.exc = "none"
               /\ result'.val \in Issued'
               /\ users' = [users EXCEPT
                     ![RowOf(users, result'.call.email)].reset_token = result'.val]
          ELSE /\ result'.exc = "ValueError"
               /\ users' = users]_vars

\* C14 has happened: get_reset_password_token has just stored the token it
\* returns on the record of a user who holds a session.
C14_Witness ==
    /\ result.call.op = "get_reset_password_token"
    /\ result.exc = "none"
    /\ result.val \in Issued
    /\ result.user # NoUser
    /\ users[result.user[1].id].email = result.call.email
    /\ users[result.user[1].id].reset_token = result.val
    /\ users[result.user[1].id].session_id \in Issued

\* C15: update_password called with an empty or None reset_token, or an
\* empty or None password, returns without error and changes no record,
\* also while users have reset_token unset and also when the token is a
\* valid one and the password is empty.
C15_EmptyArgumentIsNoOp ==
    [][(/\ Completes("update_password")
        /\ (Falsy(result'.call.token) \/ Falsy(result'.call.password)))
       => (result'.exc = "none" /\ users' = users)]_vars

\* C15 has happened: update_password has just returned for a stored reset
\* token and an empty password, while another user has no reset token.
C15_Witness ==
    /\ result.call.op = "update_password"
    /\ result.exc = "none"
    /\ Falsy(result.call.password)
    /\ result.call.token \in Issued
    /\ ~NotStored(users, result.call.token)
    /\ ~NotStored(users, None)

\* The record holds, for every column among the keys, the value given.
Satisfies(row, kwargs) ==
    \A k \in DOMAIN kwargs \cap Columns :
        IF k = "id" THEN IntVal(row.id) = kwargs[k] ELSE row[k] = kwargs[k]

\* C16: find_user_by fails with InvalidRequestError when called with no
\* filter or with any key that is not a column, also when its other keys are
\* columns and would match; with columns only it fails with NoResultFound
\* when no record matches and otherwise returns a record of the table
\* matching every given key.
C16_FindUserByChecksKeys ==
    result.call.op = "find_user_by"
    => LET kwargs == result.call.kwargs
       IN  IF DOMAIN kwargs = {} \/ \E k \in DOMAIN kwargs : k \notin Columns
           THEN result.exc = "InvalidRequestError" /\ result.val = NoUser
           ELSE IF \A i \in 1..Len(users) : ~Satisfies(users[i], kwargs)
                THEN result.exc = "NoResultFound" /\ result.val = NoUser
                ELSE /\ result.exc = "none"
                     /\ result.val # NoUser
                     /\ \E i \in 1..Len(users) : users[i] = result.val[1]
                     /\ Satisfies(result.val[1], kwargs)

\* C16 has happened: find_user_by has just refused a filter with a key that
\* is no column, whose other keys are columns and match a record.
C16_Witness ==
    /\ result.call.op = "find_user_by"
    /\ result.exc = "InvalidRequestError"
    /\ "nickname" \in DOMAIN result.call.kwargs
    /\ {"email", "session_id"} \subseteq DOMAIN result.call.kwargs
    /\ \E i \in 1..Len(users) : Satisfies(users[i], result.call.kwargs)

\* C17: update_user is all-or-nothing: if any key of the given fields is
\* not a column, or the id matches no record, the call fails and no field of
\* any record is changed; if it succeeds, every given field of the record
\* with that id holds its new value.
C17_UpdateUserAllOrNothing ==
    [][Completes("update_user")
       => LET kwargs  == result'.call.kwargs
              user_id == result'.call.user_id
          IN  IF UnknownId(users, user_id) \/ ~(DOMAIN kwargs \subseteq Columns)
              THEN result'.exc # "none" /\ users' = users
              ELSE /\ result'.exc = "none"
                   /\ Len(users') = Len(users)
                   /\ \A i \in 1..Len(users) :
                         IntVal(users[i].id) = user_id
                         => /\ users'[i].id = users[i].id
                            /\ Satisfies(users'[i], kwargs)]_vars

\* C17 has happened: update_user has just failed on a key that is no
\* column, given with a column whose value differs from the stored one, for
\* the id of a record.
C17_Witness ==
    /\ result.call.op = "update_user"
    /\ result.exc = "ValueError"
    /\ ~UnknownId(users, result.call.user_id)
    /\ {"session_id", "nickname"} \subseteq DOMAIN result.call.kwargs
    /\ \E i \in 1..Len(users) :
          /\ IntVal(users[i].id) = result.call.user_id
          /\ users[i].session_id # result.call.kwargs["session_id"]

\* No two records hold the same value of this column, unless it is unset.
UniqueWhenSet(us, column) ==
    \A i, j \in 1..Len(us) :
        (i # j /\ us[i][column] # None) => us[i][column] # us[j][column]

\* C18: in every reachable state no two distinct records hold the same
\* non-null session_id and no two hold the same non-null reset_token, so a
\* session token resolves to at most one user.
C18_TokensUnique ==
    /\ UniqueWhenSet(users, "session_id")
    /\ UniqueWhenSet(users, "reset_token")
    /\ \A s \in Issued :
          Cardinality({i \in 1..Len(users) : users[i].session_id = s}) <= 1

\* C18 has happened: two users hold a session each.
C18_Witness ==
    /\ Len(users) = 2
    /\ users[1].session_id \in Issued
    /\ users[2].session_id \in Issued
    /\ users[1].session_id # users[2].session_id

\* The blob is what bcrypt.hashpw returns for some password and salt.
IsHash(blob) == \E p \in Passwords, s \in Salts : blob = hashpw(p, s)

\* The step is the store update of a successful update_password for the
\* record with this id.
ReplacesPasswordOf(id) ==
    \E t \in Threads : /\ pc[t] = "password_update" /\ pc'[t] = "ready"
                       /\ result'.exc = "none"
                       /\ user[t][1].id = id

\* C19: in every reachable state every record has a hashed_password that
\* is the output of _hash_password on some password: it is set at
\* registration, replaced only by a successful update_password, and never
\* cleared or set to a plaintext value; no record is ever removed.
C19_PasswordAlwaysHashed ==
    /\ [](\A i \in 1..Len(users) : IsHash(users[i].hashed_password))
    /\ [][/\ Len(users') >= Len(users)
          /\ \A i \in 1..Len(users) :
                users'[i].hashed_password # users[i].hashed_password
                => ReplacesPasswordOf(users[i].id)]_vars

\* C19 has happened: update_password has just replaced the hash a user
\* registered with by the hash of another password.
C19_Witness ==
    /\ result.call.op = "update_password"
    /\ result.exc = "none"
    /\ result.user # NoUser
    /\ IsHash(result.user[1].hashed_password)
    /\ IsHash(users[result.user[1].id].hashed_password)
    /\ users[result.user[1].id].hashed_password # result.user[1].hashed_password

\* C20: POST /users answers a duplicate registration (register_user raising
\* ValueError) with a status other than the 400 it answers a request
\* missing the email or password form field with.
C20_DuplicateRegistrationIsNotBadRequest ==
    (result.call.op = "post_users" /\ result.user # NoUser)
    => result.val.status # Abort(400).status

\* The operation whose store call or return the step is.
StepOp == result'.call.op

\* C21: each engine operation changes only the fields its transition
\* names: session_id is changed only by create_session and destroy_session,
\* reset_token only by get_reset_password_token and update_password,
\* hashed_password only by update_password; records are created only by
\* register_user, never deleted and keep their id and email; valid_login and
\* get_user_from_session_id change no record whatever they return.
C21_OperationsChangeOnlyTheirFields ==
    [][\/ users' = users
       \/ /\ StepOp \notin {"valid_login", "get_user_from_session_id"}
          /\ Len(users') >= Len(users)
          /\ Len(users') > Len(users) => StepOp = "register_user"
          /\ \A i \in 1..Len(users) :
                /\ users'[i].id = users[i].id
                /\ users'[i].email = users[i].email
                /\ users'[i].session_id # users[i].session_id
                   => StepOp \in {"create_session", "destroy_session"}
                /\ users'[i].reset_token # users[i].reset_token
                   => StepOp \in {"get_reset_password_token", "update_password"}
                /\ users'[i].hashed_password # users[i].hashed_password
                   => StepOp = "update_password"]_vars

\* C21 has happened: valid_login has just refused a wrong password for a
\* user who holds a session and a reset token, and both are still stored.
C21_Witness ==
    /\ result.call.op = "valid_login"
    /\ result.val = FALSE
    /\ result.user # NoUser
    /\ users[result.user[1].id] = result.user[1]
    /\ result.user[1].session_id \in Issued
    /\ result.user[1].reset_token \in Issued

\* No record with this email verifies this password.
BadCredentials(us, email, password) ==
    \A i \in 1..Len(us) :
        us[i].email = email => ~checkpw(password, us[i].hashed_password)

\* C22: POST /sessions issues a session only after credential
\* verification: with an unknown email or a wrong password it aborts with
\* 401 and no user's session_id changes; with valid credentials the
\* session_id cookie it sets equals the session_id stored on that user's
\* record.
C22_LoginVerifiesCredentials ==
    /\ []((result.call.op = "log_in" /\ result.val.status = 200)
          => /\ result.user # NoUser
             /\ LET row == users[result.user[1].id]
                IN  /\ row.email = result.call.email
                    /\ checkpw(result.call.password, row.hashed_password)
                    /\ result.val.cookie \in Issued
                    /\ row.session_id = result.val.cookie)
    /\ [][(/\ Completes("log_in")
            /\ result'.call.email # None
            /\ result'.call.password # None
            /\ BadCredentials(users, result'.call.email, result'.call.password))
           => (result'.val.status = 401 /\ users' = users)]_vars

\* C22 has happened: POST /sessions has just answered valid credentials
\* with the cookie stored on the user's record, replacing an older session.
C22_Witness ==
    /\ result.call.op = "log_in"
    /\ result.exc = "none"
    /\ result.val.status = 200
    /\ result.user # NoUser
    /\ result.user[1].session_id \in Issued
    /\ result.val.cookie \in Issued
    /\ users[result.user[1].id].session_id = result.val.cookie

\* The reset tokens update_password would accept for the record with this id.
UsableResetTokens(us, id) ==
    {R \in Issued : LET found == find_user_by(us, [reset_token |-> R])
                    IN  found.exc = "none" /\ found.val.id = id}

\* C23: requesting a reset token twice for the same user invalidates the
\* first: once get_reset_password_token has returned R2 for a user who held
\* R1, R1 is stored on no record and R2 on that user's; update_password
\* with an issued token no record stores raises ValueError and changes
\* nothing, with a stored one it succeeds; a user has at most one usable
\* reset token at any time.
C23_NewResetTokenInvalidatesOld ==
    /\ [](\A i \in 1..Len(users) :
             Cardinality(UsableResetTokens(users, users[i].id)) <= 1)
    /\ []((/\ result.call.op = "get_reset_password_token"
           /\ result.exc = "none"
           /\ result.user # NoUser)
          => /\ UsableResetTokens(users, result.user[1].id) = {result.val}
             /\ result.user[1].reset_token # result.val
             /\ result.user[1].reset_token # None
                => NotStored(users, result.user[1].reset_token))
    /\ [][\A R \in Issued :
             (/\ Completes("update_password")
              /\ result'.call.token = R
              /\ ~Falsy(result'.call.password))
             => IF NotStored(users, R)
                THEN result'.exc = "ValueError" /\ users' = users
                ELSE /\ result'.exc = "none"
                     /\ NotStored(users', R)
                     /\ \E i \in 1..Len(users) :
                           /\ users[i].reset_token = R
                           /\ checkpw(result'.call.password,
                                      users'[i].hashed_password)]_vars

\* C23 has happened: get_reset_password_token has just returned a second
\* token for a user who held a first, which is stored no more.
C23_Witness ==
    /\ result.call.op = "get_reset_password_token"
    /\ result.exc = "none"
    /\ result.user # NoUser
    /\ result.user[1].reset_token \in Issued
    /\ result.val \in Issued
    /\ result.val # result.user[1].reset_token
    /\ NotStored(users, result.user[1].reset_token)
    /\ users[result.user[1].id].reset_token = result.val

\* C24: before_request lets a request through without any check when no
\* auth object is configured or when require_auth reports the path as
\* excluded; otherwise it aborts with 401 when the authorization header is
\* absent, whatever current_user would return, aborts with 403 when the
\* header is present but current_user is None, and lets the request through
\* only when both are present.
C24_BeforeRequestGuards ==
    result.call.op = "before_request"
    => LET k == result.call.kwargs
       IN  /\ result.exc = "none"
           /\ (auth = None \/ ~k.require_auth) => result.val = PassThrough
           /\ (auth # None /\ k.require_auth)
              => /\ k.authorization_header = None => result.val.status = 401
                 /\ (k.authorization_header # None /\ k.current_user = None)
                    => result.val.status = 403
                 /\ result.val = PassThrough
                    <=> (k.authorization_header # None /\ k.current_user # None)

\* C24 has happened: with an auth object configured, before_request has
\* just aborted with 401 a request to a path that requires auth and has no
\* authorization header, though current_user would return a user.
C24_Witness ==
    /\ result.call.op = "before_request"
    /\ auth # None
    /\ result.call.kwargs.require_auth
    /\ result.call.kwargs.authorization_header = None
    /\ result.call.kwargs.current_user # None
    /\ result.val = Abort(401)

====
